---- MODULE Spec2Model ----
(***************************************************************************)
(* Model of the ols binary resolution of the Odin extension for Zed        *)
(* (src/src/odin.rs): OdinExtension::language_server_binary, the fallback  *)
(* chain settings -> which -> cached path -> latest GitHub release, and    *)
(* the download / make-executable / cleanup sequence that follows it.      *)
(***************************************************************************)
EXTENDS Integers, Sequences, FiniteSets, TLC

VARIABLES
    platform,            \* zed::current_platform(): [os, arch], fixed per process
    cached_binary_path,  \* OdinExtension.cached_binary_path : Option<String>
    workdir,             \* the extension's working directory ".": entry name -> names of the regular files in it
    extFiles,            \* regular files that exist outside the working directory
    call,                \* the language_server_command call that has just returned (NoCall when idle)
    prev                 \* what the call before it returned, when nothing happened in between

vars == <<platform, cached_binary_path, workdir, extFiles, call, prev>>

----------------------------------------------------------------------------
(* Bounds of the model *)

\* number of release versions the feed may report ("1.0", "2.0", ...)
MaxVersion == 2
\* longest asset list of a release
MaxAssets == 2

----------------------------------------------------------------------------
(* Option<T> and Result<T, String> *)

None == <<>>
Some(x) == <<x>>
IsSome(o) == Len(o) = 1
IsNone(o) == Len(o) = 0
Unwrap(o) == o[1]

----------------------------------------------------------------------------
(* Platform tokens and the names built from them *)

Oses == {"Mac", "Linux", "Windows"}
Archs == {"Aarch64", "X86", "X8664"}
Platforms == [os : Oses, arch : Archs]

\* (mutant) 32-bit x86 is given the token of x86_64
arch_token_merged(arch) ==
    CASE arch = "Aarch64" -> "arm64"
      [] arch = "X86"     -> "x86_64"
      [] arch = "X8664"   -> "x86_64"

arch_token(arch) ==
    CASE arch = "Aarch64" -> "arm64"
      [] arch = "X86"     -> "x86"
      [] arch = "X8664"   -> "x86_64"

os_token(os) ==
    CASE os = "Mac"     -> "darwin"
      [] os = "Linux"   -> "unknown-linux-gnu"
      [] os = "Windows" -> "pc-windows-msvc"

extension(os) ==
    CASE os \in {"Mac", "Linux"} -> "zip"
      [] os = "Windows"          -> "zip"

asset_name(p) ==
    "ols-" \o arch_token(p.arch) \o "-" \o os_token(p.os) \o "." \o extension(p.os)

version_dir(version) == "ols-" \o version

binary_name(p) == "ols-" \o arch_token(p.arch) \o "-" \o os_token(p.os)

binary_path(vdir, p) == vdir \o "/" \o binary_name(p)

\* the message of the directory creation failure, without the cause that follows it
create_dir_error(vdir) == "failed to create directory '" \o vdir \o "'"

\* the message of the asset lookup failure: format!("no asset found matching {:?}", asset_name)
no_asset_error(name) == "no asset found matching \"" \o name \o "\""

----------------------------------------------------------------------------
(* Inputs of a call: what the host, the worktree and the network answer *)

\* paths a user may configure as binary.path; "/custom/ols" never exists on disk
CfgPaths == {"/usr/bin/ols", "/custom/ols"}
\* what worktree.which("ols") may find
WhichPaths == {"/usr/bin/ols"}
\* files outside the working directory that may exist or not
ExtPaths == {"/usr/bin/ols"}
CfgArguments == {<<"-stdin">>}

\* LspSettings::for_worktree("ols", worktree): Err, or Ok with binary: Option<{path, arguments}>
Settings ==
    {[ok |-> FALSE, binary |-> None], [ok |-> TRUE, binary |-> None]}
    \cup {[ok |-> TRUE, binary |-> Some([path |-> p, arguments |-> a])] :
            p \in {None} \cup {Some(x) : x \in CfgPaths},
            a \in {None} \cup {Some(x) : x \in CfgArguments}}

WhichResults == {None} \cup {Some(p) : p \in WhichPaths}

\* the workspace's shell environment
ShellEnv == <<<<"ODIN_ROOT", "/opt/odin">>>>

\* release.version: "1.0", "2.0", ...; a version is one path component, so that
\* version_dir names a top-level entry of the working directory
Versions == {ToString(n) \o ".0" : n \in 1..MaxVersion}

\* names a release may give its assets
AssetNames == {"ols-arm64-darwin.zip", "ols-x86_64-pc-windows-msvc.zip"}

\* the asset lists of a release: any names, the i-th asset downloaded from "url<i>"
AssetLists ==
    UNION {{[i \in 1..n |-> [name |-> names[i], download_url |-> "url" \o ToString(i)]] :
              names \in [1..n -> AssetNames]} : n \in 1..MaxAssets}

\* zed::latest_github_release: Err, or a release with version and assets
FeedErr == [ok |-> FALSE, version |-> "", assets |-> <<>>]
Feeds == {FeedErr} \cup {[ok |-> TRUE, version |-> v, assets |-> a] : v \in Versions, a \in AssetLists}

----------------------------------------------------------------------------
(* Values returned *)

OlsBinary(path, args, environment) ==
    [path |-> path, args |-> args, environment |-> environment]

NoBinary == OlsBinary("", None, None)

Ok(b) == [ok |-> TRUE, val |-> b, err |-> ""]
Err(e) == [ok |-> FALSE, val |-> NoBinary, err |-> e]

unwrap_or_default(o) == IF IsSome(o) THEN Unwrap(o) ELSE <<>>

\* zed::Command built by language_server_command from the OlsBinary
Command(b) ==
    [command |-> b.path, args |-> unwrap_or_default(b.args), env |-> unwrap_or_default(b.environment)]

Ev(op, arg) == [op |-> op, arg |-> arg]

----------------------------------------------------------------------------
(* The filesystem *)

\* fs::metadata(path).map_or(false, |stat| stat.is_file())
is_file(path, wd, ext) ==
    \/ path \in ext
    \/ \E d \in DOMAIN wd : \E n \in wd[d] : path = d \o "/" \o n

\* fs::create_dir_all(dir), when it succeeds
create_dir_all(wd, dir) ==
    [d \in DOMAIN wd \cup {dir} |-> IF d \in DOMAIN wd THEN wd[d] ELSE {}]

\* zed::download_file(url, dir, Zip), when it succeeds: the archive's files are unpacked into dir
download_file(wd, dir, contents) ==
    [wd EXCEPT ![dir] = @ \cup contents]

\* (mutant) the loop removes nothing
remove_entries_none(wd, vdir, processed, rmFail) == wd

\* (mutant) the loop does not spare version_dir
remove_entries_all(wd, vdir, processed, rmFail) ==
    [d \in DOMAIN wd \ {e \in processed : e \notin rmFail} |-> wd[d]]

\* the loop over read_dir("."): of the entries it got to (processed), every one
\* whose name is not version_dir is removed, unless its removal failed (rmFail)
remove_entries(wd, vdir, processed, rmFail) ==
    [d \in DOMAIN wd \ {e \in processed : e # vdir /\ e \notin rmFail} |-> wd[d]]

\* what an archive may unpack: the platform's binary, or nothing of use
ArchiveContents(p) == {{binary_name(p)}, {}}

----------------------------------------------------------------------------
(* Pieces of language_server_binary *)

\* (mutant) the configured arguments are kept only together with a configured path
settings_args_with_path(settings) ==
    IF settings.ok /\ IsSome(settings.binary) /\ IsSome(Unwrap(settings.binary).path)
    THEN Unwrap(settings.binary).arguments
    ELSE None

\* args = binary.arguments, when the settings load and name a binary
settings_args(settings) ==
    IF settings.ok /\ IsSome(settings.binary)
    THEN Unwrap(settings.binary).arguments
    ELSE None

\* (mutant) the configured path is ignored
settings_path_ignored(settings) == None

\* binary.path, when the settings load and name a binary
settings_path(settings) ==
    IF settings.ok /\ IsSome(settings.binary)
    THEN Unwrap(settings.binary).path
    ELSE None

\* (mutant) the shell environment is attached on every operating system
environment_of_always(os) == Some(ShellEnv)

\* Some(worktree.shell_env()) on Mac and Linux, None on Windows
environment_of(os) ==
    IF os \in {"Mac", "Linux"} THEN Some(ShellEnv) ELSE None

\* (mutant) the last asset of that name is taken
find_asset_last(assets, name) ==
    LET hits == {i \in 1..Len(assets) : assets[i].name = name}
    IN  IF hits = {} THEN None
        ELSE Some(assets[CHOOSE i \in hits : \A j \in hits : i >= j])

\* (mutant) with no asset of that name the first asset of the release is taken
find_asset_any(assets, name) ==
    LET hits == {i \in 1..Len(assets) : assets[i].name = name}
    IN  IF hits = {}
        THEN (IF Len(assets) = 0 THEN None ELSE Some(assets[1]))
        ELSE Some(assets[CHOOSE i \in hits : \A j \in hits : i <= j])

\* release.assets.iter().find(|asset| asset.name == asset_name)
find_asset(assets, name) ==
    LET hits == {i \in 1..Len(assets) : assets[i].name = name}
    IN  IF hits = {} THEN None
        ELSE Some(assets[CHOOSE i \in hits : \A j \in hits : i <= j])

\* (mutant) the check of the cached path is inverted
cache_hit_inverted(cache, wd, ext) ==
    IsSome(cache) /\ ~is_file(Unwrap(cache), wd, ext)

\* (mutant) the cached path is returned without a check of the file
cache_hit_unchecked(cache, wd, ext) == IsSome(cache)

\* the cached path is returned when it is set and is a regular file
cache_hit(cache, wd, ext) ==
    IsSome(cache) /\ is_file(Unwrap(cache), wd, ext)

\* (mutant) the download runs whether or not the binary is there
needs_install_always(bpath, wd, ext) == TRUE

\* the binary is downloaded when binary_path is not a regular file
needs_install(bpath, wd, ext) == ~is_file(bpath, wd, ext)

StatusChecking == Ev("status", "CheckingForUpdate")
StatusDownloading == Ev("status", "Downloading")
FeedQuery == Ev("latest_github_release", "DanielGavin/ols")

NoCall ==
    [active |-> FALSE, settings |-> [ok |-> FALSE, binary |-> None], which |-> None,
     feed |-> None, result |-> Err(""), command |-> None, log |-> <<>>,
     listed |-> {}, unremoved |-> {}]

\* what is remembered of a call for the call that follows it, when the call
\* returned a path that worktree.which found or one that it downloaded, or when
\* it failed with a path in the cache (stale)
NoPrev == [path |-> None, found |-> FALSE, downloaded |-> FALSE, stale |-> FALSE]

Downloaded(log) == \E i \in 1..Len(log) : log[i].op = "download_file"

Summary(c) ==
    IF c.result.ok /\ IsNone(settings_path(c.settings)) /\ IsSome(c.which)
    THEN [NoPrev EXCEPT !.path = Some(c.result.val.path), !.found = TRUE]
    ELSE IF c.result.ok /\ Downloaded(c.log)
    THEN [NoPrev EXCEPT !.path = Some(c.result.val.path), !.downloaded = TRUE]
    ELSE NoPrev

\* what the cleanup loop saw: the entries read_dir(".") listed and those whose
\* remove_dir_all failed (the failure is dropped by .ok())
NoRm == [listed |-> {}, unremoved |-> {}]

\* the call returns: the new cache and working directory, and the record of the call
Return(in, result, cache, wd, log, rm) ==
    /\ cached_binary_path' = cache
    /\ workdir' = wd
    /\ call' = [active |-> TRUE, settings |-> in.settings, which |-> in.which,
                feed |-> in.feed, result |-> result,
                command |-> IF result.ok THEN Some(Command(result.val)) ELSE None,
                log |-> log, listed |-> rm.listed, unremoved |-> rm.unremoved]
    /\ UNCHANGED <<platform, extFiles, prev>>

\* (mutant) a failing call forgets the cached path
failed_clearing(in, e, wd, log, rm) ==
    Return(in, Err(e), None, wd, log, rm)

\* an error return (`?`): the cached path stays as it was
failed(in, e, wd, log, rm) ==
    Return(in, Err(e), cached_binary_path, wd, log, rm)

----------------------------------------------------------------------------
(* language_server_binary: the steps after the asset is found *)

\* (mutant) binary_path is returned but not cached
finish_uncached(in, args, environment, bpath, wd, log, rm) ==
    Return(in, Ok(OlsBinary(bpath, args, environment)), cached_binary_path, wd, log, rm)

\* the end of the function: the cache is set to binary_path, which is returned
finish(in, args, environment, bpath, wd, log, rm) ==
    Return(in, Ok(OlsBinary(bpath, args, environment)), Some(bpath), wd,
           Append(log, Ev("set_cached_binary_path", bpath)), rm)

\* (mutant) a removal that fails ends the call, as `?` in place of .ok() would
cleanup_strict(in, args, environment, vdir, bpath, wd, log) ==
    \E processed \in SUBSET (DOMAIN wd) :
      \E rmFail \in SUBSET (processed \ {vdir}) :
        LET wd2 == remove_entries(wd, vdir, processed, rmFail)
            rm  == [listed |-> DOMAIN wd, unremoved |-> rmFail]
        IN  IF processed # DOMAIN wd
            THEN failed(in, "failed to load directory entry", wd2, log, rm)
            ELSE IF rmFail # {}
            THEN failed(in, "failed to remove directory", wd2, log, rm)
            ELSE finish(in, args, environment, bpath, wd2, log, rm)

\* the loop over the entries of read_dir("."); an entry that fails to load ends the call
cleanup(in, args, environment, vdir, bpath, wd, log) ==
    \E processed \in SUBSET (DOMAIN wd) :
      \E rmFail \in SUBSET (processed \ {vdir}) :
        LET wd2 == remove_entries(wd, vdir, processed, rmFail)
            rm  == [listed |-> DOMAIN wd, unremoved |-> rmFail]
        IN  IF processed # DOMAIN wd
            THEN failed(in, "failed to load directory entry", wd2, log, rm)
            ELSE finish(in, args, environment, bpath, wd2, log, rm)

\* (mutant) the Downloading status is signalled after the download
download_log_late(log, url) ==
    log \o <<Ev("download_file", url), StatusDownloading>>

\* (mutant) the download is attempted a second time
download_log_retry(log, url) ==
    log \o <<StatusDownloading, Ev("download_file", url), Ev("download_file", url)>>

\* the Downloading status is signalled, then the asset is downloaded
download_log(log, url) ==
    log \o <<StatusDownloading, Ev("download_file", url)>>

\* (mutant) the cache is set as soon as the binary is executable, before the listing
install_caching_early(in, args, environment, asset, vdir, bpath, wd, log) ==
    LET log1 == download_log(log, asset.download_url)
    IN  \E dlOk \in BOOLEAN :
          IF ~dlOk
          THEN failed(in, "failed to download file", wd, log1, NoRm)
          ELSE \E contents \in ArchiveContents(platform), execOk \in BOOLEAN :
                 LET wd1 == download_file(wd, vdir, contents)
                     log2 == Append(log1, Ev("make_file_executable", bpath))
                 IN  IF ~(execOk /\ is_file(bpath, wd1, extFiles))
                     THEN failed(in, "failed to make file executable", wd1, log2, NoRm)
                     ELSE \E listOk \in BOOLEAN :
                            LET log3 == Append(log2, Ev("read_dir", "."))
                            IN  IF ~listOk
                                THEN Return(in, Err("failed to list working directory"),
                                            Some(bpath), wd1, log3, NoRm)
                                ELSE cleanup(in, args, environment, vdir, bpath, wd1, log3)

\* the body of `if !is_file(binary_path)`: signal Downloading, download, make
\* executable, list the working directory and remove the other entries.
\* zed::make_file_executable succeeds only on a file that exists (execOk: it
\* may fail on one that does); a failed download unpacks nothing.
install(in, args, environment, asset, vdir, bpath, wd, log) ==
    LET log1 == download_log(log, asset.download_url)
    IN  \E dlOk \in BOOLEAN :
          IF ~dlOk
          THEN failed(in, "failed to download file", wd, log1, NoRm)
          ELSE \E contents \in ArchiveContents(platform), execOk \in BOOLEAN :
                 LET wd1 == download_file(wd, vdir, contents)
                     log2 == Append(log1, Ev("make_file_executable", bpath))
                 IN  IF ~(execOk /\ is_file(bpath, wd1, extFiles))
                     THEN failed(in, "failed to make file executable", wd1, log2, NoRm)
                     ELSE \E listOk \in BOOLEAN :
                            LET log3 == Append(log2, Ev("read_dir", "."))
                            IN  IF ~listOk
                                THEN failed(in, "failed to list working directory", wd1, log3, NoRm)
                                ELSE cleanup(in, args, environment, vdir, bpath, wd1, log3)

\* the steps from the CheckingForUpdate status on
remote(in0, args, environment) ==
    \E feed \in Feeds :
      LET in   == [in0 EXCEPT !.feed = Some(feed)]
          log  == <<StatusChecking, FeedQuery>>
          name == asset_name(platform)
          found == find_asset(feed.assets, name)
          vdir == version_dir(feed.version)
          bpath == binary_path(vdir, platform)
      IN  IF ~feed.ok
          THEN failed(in, "failed to fetch the latest release", workdir, log, NoRm)
          ELSE IF IsNone(found)
          THEN failed(in, no_asset_error(name), workdir, log, NoRm)
          ELSE \E mkdirOk \in BOOLEAN :
                 LET log1 == Append(log, Ev("create_dir_all", vdir))
                     wd1  == create_dir_all(workdir, vdir)
                 IN  IF ~mkdirOk
                     THEN failed(in, create_dir_error(vdir), workdir, log1, NoRm)
                     ELSE IF needs_install(bpath, wd1, extFiles)
                     THEN install(in, args, environment, Unwrap(found), vdir, bpath, wd1, log1)
                     ELSE finish(in, args, environment, bpath, wd1, log1, NoRm)

----------------------------------------------------------------------------
(* Operations *)

\* the settings name a path: it is returned as it is
settings_found(in, args, environment, path) ==
    Return(in, Ok(OlsBinary(path, args, environment)), cached_binary_path, workdir, <<>>, NoRm)

\* (mutant) the path worktree.which found is returned but not cached
which_found_uncached(in, args, environment, path) ==
    Return(in, Ok(OlsBinary(path, args, environment)), cached_binary_path, workdir, <<>>, NoRm)

\* worktree.which("ols") found a path: it is cached and returned
which_found(in, args, environment, path) ==
    Return(in, Ok(OlsBinary(path, args, environment)), Some(path), workdir,
           <<Ev("set_cached_binary_path", path)>>, NoRm)

\* the cached path is a regular file: it is returned
cache_found(in, args, environment, path) ==
    Return(in, Ok(OlsBinary(path, args, environment)), cached_binary_path, workdir, <<>>, NoRm)

\* (mutant) the cached path is tried before worktree.which
language_server_command_cache_first ==
    /\ ~call.active
    /\ \E settings \in Settings, which \in WhichResults :
         LET in == [settings |-> settings, which |-> which, feed |-> None]
             args == settings_args(settings)
             environment == environment_of(platform.os)
             path == settings_path(settings)
         IN  IF IsSome(path)
             THEN settings_found(in, args, environment, Unwrap(path))
             ELSE IF cache_hit(cached_binary_path, workdir, extFiles)
             THEN cache_found(in, args, environment, Unwrap(cached_binary_path))
             ELSE IF IsSome(which)
             THEN which_found(in, args, environment, Unwrap(which))
             ELSE remote(in, args, environment)

\* language_server_command, with the language_server_binary call it makes
language_server_command ==
    /\ ~call.active
    /\ \E settings \in Settings, which \in WhichResults :
         LET in == [settings |-> settings, which |-> which, feed |-> None]
             args == settings_args(settings)
             environment == environment_of(platform.os)
             path == settings_path(settings)
         IN  IF IsSome(path)
             THEN settings_found(in, args, environment, Unwrap(path))
             ELSE IF IsSome(which)
             THEN which_found(in, args, environment, Unwrap(which))
             ELSE IF cache_hit(cached_binary_path, workdir, extFiles)
             THEN cache_found(in, args, environment, Unwrap(cached_binary_path))
             ELSE remote(in, args, environment)

\* the host takes the Result the call returned; the extension is idle again
host_takes_result ==
    /\ call.active
    /\ call' = NoCall
    /\ prev' = IF ~call.result.ok /\ IsSome(cached_binary_path)
               THEN [NoPrev EXCEPT !.path = cached_binary_path, !.stale = TRUE]
               ELSE Summary(call)
    /\ UNCHANGED <<platform, cached_binary_path, workdir, extFiles>>

\* OdinExtension::new: the extension is loaded again, the working directory stays
new ==
    /\ ~call.active
    /\ cached_binary_path' = None
    /\ prev' = NoPrev
    /\ UNCHANGED <<platform, workdir, extFiles, call>>

\* a file outside the working directory appears (ols is installed system-wide)
ExtFileAppears ==
    /\ ~call.active
    /\ \E p \in ExtPaths \ extFiles : extFiles' = extFiles \cup {p}
    /\ prev' = IF prev.stale THEN prev ELSE NoPrev
    /\ UNCHANGED <<platform, cached_binary_path, workdir, call>>

\* a file outside the working directory disappears
ExtFileDisappears ==
    /\ ~call.active
    /\ \E p \in extFiles : extFiles' = extFiles \ {p}
    /\ prev' = NoPrev
    /\ UNCHANGED <<platform, cached_binary_path, workdir, call>>

\* a file of the working directory is deleted by someone else
WorkFileDeleted ==
    /\ ~call.active
    /\ \E d \in DOMAIN workdir : \E n \in workdir[d] :
         workdir' = [workdir EXCEPT ![d] = @ \ {n}]
    /\ prev' = NoPrev
    /\ UNCHANGED <<platform, cached_binary_path, extFiles, call>>

Init ==
    /\ platform \in Platforms
    /\ cached_binary_path = None
    /\ workdir = [d \in {} |-> {}]
    /\ extFiles \in SUBSET ExtPaths
    /\ call = NoCall
    /\ prev = NoPrev

Next ==
    \/ language_server_command
    \/ host_takes_result
    \/ new
    \/ ExtFileAppears
    \/ ExtFileDisappears
    \/ WorkFileDeleted

Spec == Init /\ [][Next]_vars

----------------------------------------------------------------------------
(* Vocabulary of the properties *)

\* the path and the arguments the settings of a call configure, read off the settings
ConfiguredPath(c) ==
    IF c.settings.ok /\ c.settings.binary # None THEN c.settings.binary[1].path ELSE None

ConfiguredArgs(c) ==
    IF c.settings.ok /\ c.settings.binary # None THEN c.settings.binary[1].arguments ELSE None

HasOp(log, op) == \E i \in 1..Len(log) : log[i].op = op
HasEv(log, ev) == \E i \in 1..Len(log) : log[i] = ev

\* no release-feed query, no download and no status notification in the log
Quiet(log) ==
    /\ ~HasOp(log, "latest_github_release")
    /\ ~HasOp(log, "download_file")
    /\ ~HasOp(log, "status")

\* a step that is a whole call of language_server_command
CallStep == ~call.active /\ call'.active

\* the call of this step has no configured path and worktree.which finds nothing
MissesBoth(c) == IsNone(ConfiguredPath(c)) /\ IsNone(c.which)

----------------------------------------------------------------------------
(* Properties *)

\* C1: when the settings give a binary path, the call returns exactly that
\* path with the configured arguments, whatever the cache, worktree.which and
\* the filesystem hold, and it neither queries the release feed nor downloads.
C1_OverrideWins ==
    (call.active /\ IsSome(ConfiguredPath(call))) =>
        /\ call.result.ok
        /\ call.result.val.path = Unwrap(ConfiguredPath(call))
        /\ call.result.val.args = ConfiguredArgs(call)
        /\ Unwrap(call.command).command = Unwrap(ConfiguredPath(call))
        /\ Unwrap(call.command).args = unwrap_or_default(ConfiguredArgs(call))
        /\ ~HasOp(call.log, "latest_github_release")
        /\ ~HasOp(call.log, "download_file")

\* a call returned a configured path that does not exist, while worktree.which
\* found another path and the cache held one
C1_Witness ==
    /\ call.active
    /\ ConfiguredPath(call) = Some("/custom/ols")
    /\ ConfiguredArgs(call) = Some(<<"-stdin">>)
    /\ ~is_file("/custom/ols", workdir, extFiles)
    /\ IsSome(call.which)
    /\ IsSome(cached_binary_path)
    /\ call.result.ok
    /\ call.result.val.path = "/custom/ols"

\* C2: with no configured path, a call for which worktree.which finds P returns
\* P and leaves the cache at P without a release-feed query; so does the call
\* that follows it when worktree.which still finds P.
C2_EnvironmentFound ==
    (call.active /\ IsNone(ConfiguredPath(call)) /\ IsSome(call.which)) =>
        /\ call.result.ok
        /\ call.result.val.path = Unwrap(call.which)
        /\ cached_binary_path = call.which
        /\ ~HasOp(call.log, "latest_github_release")
        /\ (prev.found => prev.path = Some(call.result.val.path))

\* the second of two calls in a row for which worktree.which found the same path
C2_Witness ==
    /\ call.active
    /\ IsNone(ConfiguredPath(call))
    /\ IsSome(call.which)
    /\ prev.found
    /\ prev.path = call.which
    /\ call.result.ok
    /\ call.result.val.path = Unwrap(prev.path)
    /\ cached_binary_path = prev.path

\* C3: with no configured path and nothing found by worktree.which, a call made
\* while the cached path is a regular file returns exactly the cached path and
\* makes no release-feed query, no download and no status notification.
C3_CacheHit ==
    [][(/\ CallStep
        /\ MissesBoth(call')
        /\ IsSome(cached_binary_path)
        /\ is_file(Unwrap(cached_binary_path), workdir, extFiles))
       => (/\ call'.result.ok
           /\ call'.result.val.path = Unwrap(cached_binary_path)
           /\ Quiet(call'.log)
           /\ cached_binary_path' = cached_binary_path)]_vars

\* a call returned the cached path: nothing configured, nothing found, no remote step
C3_Witness ==
    /\ call.active
    /\ MissesBoth(call)
    /\ call.result.ok
    /\ call.log = <<>>
    /\ cached_binary_path = Some(call.result.val.path)
    /\ is_file(call.result.val.path, workdir, extFiles)

\* C4: with no configured path and nothing found by worktree.which, a call made
\* while the cached path is not a regular file does not return from the cache
\* step: it signals CheckingForUpdate and queries the release feed.
C4_StaleCacheGoesRemote ==
    [][(/\ CallStep
        /\ MissesBoth(call')
        /\ IsSome(cached_binary_path)
        /\ ~is_file(Unwrap(cached_binary_path), workdir, extFiles))
       => (/\ Len(call'.log) >= 2
           /\ call'.log[1] = StatusChecking
           /\ call'.log[2] = FeedQuery)]_vars

\* a call found the cached path gone, went to the release feed and failed there:
\* the cache still holds the stale path
C4_Witness ==
    /\ call.active
    /\ MissesBoth(call)
    /\ IsSome(cached_binary_path)
    /\ ~is_file(Unwrap(cached_binary_path), workdir, extFiles)
    /\ HasEv(call.log, FeedQuery)
    /\ ~call.result.ok

\* the version directory of the release a call resolved
CallVersionDir(c) == version_dir(c.feed[1].version)

\* a call that downloaded and returned a binary
Installed(c) == c.active /\ c.result.ok /\ HasOp(c.log, "download_file")

\* C5 as stated: after a call that installs version V the working directory
\* holds exactly one entry, the version directory of V.
C5_ExactlyOneEntry ==
    Installed(call) => DOMAIN workdir = {CallVersionDir(call)}

\* C5 as amended: after a call that installs version V the working directory
\* holds the version directory of V and, besides it, only the entries listed
\* before whose removal failed; with no failed removal it holds that one entry.
C5_OnlyUnremovedSiblingsRemain ==
    Installed(call) =>
        /\ CallVersionDir(call) \in DOMAIN workdir
        /\ call.unremoved \subseteq call.listed \ {CallVersionDir(call)}
        /\ DOMAIN workdir = {CallVersionDir(call)} \cup call.unremoved
        /\ (call.unremoved = {} => DOMAIN workdir = {CallVersionDir(call)})

\* an install found a sibling directory in the listing and removed it
C5_Witness ==
    /\ Installed(call)
    /\ call.listed \ {CallVersionDir(call)} # {}
    /\ DOMAIN workdir = {CallVersionDir(call)}

C7_FirstExactMatch ==
    (call.active /\ call.feed # None /\ call.feed[1].ok) =>
        LET assets == call.feed[1].assets
            name   == asset_name(platform)
            hits   == {i \in 1..Len(assets) : assets[i].name = name}
            first  == CHOOSE i \in hits : \A j \in hits : i <= j
        IN  /\ hits = {} =>
                /\ ~call.result.ok
                /\ call.result.err = no_asset_error(name)
                /\ ~HasOp(call.log, "create_dir_all")
                /\ ~HasOp(call.log, "download_file")
            /\ hits # {} =>
                /\ call.result.err # no_asset_error(name)
                /\ \A k \in 1..Len(call.log) :
                     call.log[k].op = "download_file" =>
                        call.log[k].arg = assets[first].download_url
            /\ platform = [os |-> "Mac", arch |-> "X86"] =>
                call.result.err = "no asset found matching \"ols-x86-darwin.zip\""
            /\ (/\ platform = [os |-> "Mac", arch |-> "Aarch64"]
                /\ Len(assets) = 2
                /\ assets[1].name = "ols-x86_64-pc-windows-msvc.zip"
                /\ assets[2].name = "ols-arm64-darwin.zip"
                /\ HasOp(call.log, "download_file"))
               => HasEv(call.log, Ev("download_file", "url2"))

\* on (Mac, Aarch64) a release listing the expected name twice was downloaded
\* from the first of the two assets
C7_Witness ==
    /\ call.active
    /\ platform = [os |-> "Mac", arch |-> "Aarch64"]
    /\ call.feed # None
    /\ Len(call.feed[1].assets) = 2
    /\ call.feed[1].assets[1].name = "ols-arm64-darwin.zip"
    /\ call.feed[1].assets[2].name = "ols-arm64-darwin.zip"
    /\ HasEv(call.log, Ev("download_file", "url1"))

\* C8 as stated: after every successful call the cache holds the returned path.
C8_CacheHoldsReturned ==
    (call.active /\ call.result.ok) =>
        cached_binary_path = Some(call.result.val.path)

\* C8 as amended: the cache is absent at the start; after every successful call
\* that was not resolved by a configured path the cache holds the returned
\* path; a call resolved by a configured path leaves the cache as it was.
C8_CacheHoldsLocated ==
    /\ cached_binary_path = None
    /\ []((call.active /\ call.result.ok /\ IsNone(ConfiguredPath(call))) =>
            cached_binary_path = Some(call.result.val.path))
    /\ [][(CallStep /\ IsSome(ConfiguredPath(call'))) =>
            cached_binary_path' = cached_binary_path]_vars

\* a call resolved through the release feed returned a path that the cache holds
C8_Witness ==
    /\ call.active
    /\ call.result.ok
    /\ MissesBoth(call)
    /\ HasEv(call.log, FeedQuery)
    /\ cached_binary_path = Some(call.result.val.path)

\* C9 as stated: the working directory holds zero or one version directory.
C9_AtMostOneVersionDir ==
    Cardinality(DOMAIN workdir) <= 1

\* C9 as amended: every entry is a version directory; a call adds at most the
\* version directory of the release it resolved (created before the download
\* and kept when the call then fails), entries are removed only by the cleanup
\* after a download, and exactly one version directory is left by a call that
\* downloaded, returned a binary and had no failed removal.
C9_VersionDirsPerCall ==
    /\ [](DOMAIN workdir \subseteq {version_dir(v) : v \in Versions})
    /\ [][CallStep =>
            /\ DOMAIN workdir' \subseteq DOMAIN workdir \cup
                 (IF HasOp(call'.log, "create_dir_all")
                  THEN {CallVersionDir(call')} ELSE {})
            /\ ~HasOp(call'.log, "read_dir") => DOMAIN workdir \subseteq DOMAIN workdir'
            /\ (Installed(call') /\ call'.unremoved = {}) =>
                 Cardinality(DOMAIN workdir') = 1]_vars

\* a call created its version directory next to another one and then failed
C9_Witness ==
    /\ call.active
    /\ ~call.result.ok
    /\ HasOp(call.log, "create_dir_all")
    /\ CallVersionDir(call) \in DOMAIN workdir
    /\ Cardinality(DOMAIN workdir) = 2

\* C10: within a call, CheckingForUpdate is signalled only when the configured
\* path, worktree.which and the cache have all missed, and before the feed is
\* queried; Downloading only after CheckingForUpdate, only when the expected
\* binary path is not a regular file, and before the download; the cache is
\* set only as the last step, after the install steps.
C10_StepOrder ==
    [][CallStep =>
        LET log == call'.log
            n   == Len(log)
            InstallOps == {"create_dir_all", "download_file", "make_file_executable", "read_dir"}
            \* the status of the check for updates comes first, after the three misses
            Checking(i) ==
                /\ i = 1
                /\ MissesBoth(call')
                /\ ~(IsSome(cached_binary_path)
                     /\ is_file(Unwrap(cached_binary_path), workdir, extFiles))
            \* the feed is queried after the CheckingForUpdate status
            Feed(i) == i > 1 /\ log[1] = StatusChecking
            \* Downloading comes after CheckingForUpdate and the feed query, when
            \* the expected path is no regular file, and before any download
            Downloading(i) ==
                /\ i > 2 /\ log[1] = StatusChecking /\ log[2] = FeedQuery
                /\ ~is_file(binary_path(CallVersionDir(call'), platform), workdir, extFiles)
                /\ \A k \in 1..i : log[k].op # "download_file"
            \* the download comes after the Downloading status
            Download(i) == \E j \in 1..(i - 1) : log[j] = StatusDownloading
            \* the cache is set last, after every install step
            SetCache(i) ==
                /\ i = n
                /\ cached_binary_path' = Some(log[i].arg)
        IN  /\ \A i \in 1..n :
                 CASE log[i] = StatusChecking               -> Checking(i)
                   [] log[i] = FeedQuery                    -> Feed(i)
                   [] log[i] = StatusDownloading            -> Downloading(i)
                   [] log[i].op = "download_file"           -> Download(i)
                   [] log[i].op = "set_cached_binary_path"  -> SetCache(i)
                   [] OTHER                                 -> log[i].op \in InstallOps
            /\ cached_binary_path' # cached_binary_path =>
                 (n > 0 /\ log[n].op = "set_cached_binary_path")]_vars

\* a call went through every step: both statuses, the feed, the download, the
\* cleanup and the cache update
C10_Witness ==
    /\ call.active
    /\ Len(call.log) = 8
    /\ [i \in 1..8 |-> call.log[i].op] =
         <<"status", "latest_github_release", "create_dir_all", "status",
           "download_file", "make_file_executable", "read_dir", "set_cached_binary_path">>
    /\ call.log[1] = StatusChecking
    /\ call.log[4] = StatusDownloading

----------------------------------------------------------------------------
(* C11 *)

\* C11: whatever branch a successful call returns from (the configured path,
\* the path worktree.which found, the cached path or the installed one), the
\* binary carries the worktree's shell environment on Mac and Linux and no
\* environment on Windows, where the Command has an empty env
C11_EnvironmentByOs ==
    (call.active /\ call.result.ok) =>
        /\ platform.os \in {"Mac", "Linux"} =>
             /\ call.result.val.environment = Some(ShellEnv)
             /\ call.command[1].env = ShellEnv
        /\ platform.os = "Windows" =>
             /\ call.result.val.environment = None
             /\ call.command[1].env = <<>>

\* on Windows a call that installed the binary returned it with no environment
C11_Witness ==
    /\ platform.os = "Windows"
    /\ Installed(call)
    /\ call.result.val.environment = None
    /\ call.command[1].env = <<>>

----------------------------------------------------------------------------
(* C12 *)

\* C12: the mapping gives the platform of the extension a non-empty
\* architecture token and a non-empty OS token; every other of the nine
\* supported platforms has a different token pair and a different asset name,
\* so the asset name a failed lookup reports is that of this platform alone
C12_DistinctAssetNames ==
    /\ Len(arch_token(platform.arch)) > 0
    /\ Len(os_token(platform.os)) > 0
    /\ \A q \in Platforms \ {platform} :
         /\ <<arch_token(q.arch), os_token(q.os)>> #
              <<arch_token(platform.arch), os_token(platform.os)>>
         /\ asset_name(q) # asset_name(platform)
    /\ \A q \in Platforms :
         (call.active /\ ~call.result.ok /\ call.result.err = no_asset_error(asset_name(q)))
            => q = platform

\* on 32-bit x86 Linux the lookup failed for the name ols-x86-unknown-linux-gnu.zip
C12_Witness ==
    /\ platform = [os |-> "Linux", arch |-> "X86"]
    /\ call.active
    /\ ~call.result.ok
    /\ call.result.err = "no asset found matching \"ols-x86-unknown-linux-gnu.zip\""

----------------------------------------------------------------------------
(* C13 *)

\* C13: when the settings configure no path, worktree.which finds a path and
\* the cache holds another path that is a regular file, the call returns the
\* path worktree.which found, sets the cache to it, and makes no feed query,
\* no download and no change to the working directory
C13_EnvironmentBeforeCache ==
    [][(/\ CallStep
        /\ IsNone(ConfiguredPath(call'))
        /\ IsSome(call'.which)
        /\ IsSome(cached_binary_path)
        /\ cached_binary_path # call'.which
        /\ is_file(cached_binary_path[1], workdir, extFiles))
       => /\ call'.result.ok
          /\ call'.result.val.path = call'.which[1]
          /\ call'.command[1].command = call'.which[1]
          /\ cached_binary_path' = call'.which
          /\ Quiet(call'.log)
          /\ workdir' = workdir]_vars

\* the call before installed a binary, which is still there, and this call
\* returned the other path worktree.which found and cached it
C13_Witness ==
    /\ call.active
    /\ prev.downloaded
    /\ IsSome(prev.path)
    /\ is_file(prev.path[1], workdir, extFiles)
    /\ IsNone(ConfiguredPath(call))
    /\ IsSome(call.which)
    /\ call.which # prev.path
    /\ call.result.ok
    /\ call.result.val.path = call.which[1]
    /\ cached_binary_path = call.which

----------------------------------------------------------------------------
(* C14 *)

\* C14: a successful call whose settings configure no path returns, from
\* worktree.which, from the cache or from the remote resolution alike, the
\* arguments the settings configure; the Command has those arguments, and an
\* empty argument list when the settings configure none
C14_ArgumentsCarried ==
    (call.active /\ call.result.ok /\ IsNone(ConfiguredPath(call))) =>
        /\ call.result.val.args = ConfiguredArgs(call)
        /\ IsSome(ConfiguredArgs(call)) => call.command[1].args = ConfiguredArgs(call)[1]
        /\ IsNone(ConfiguredArgs(call)) => call.command[1].args = <<>>

\* the settings configure arguments and no path, and the call installed the
\* binary and returned it with those arguments
C14_Witness ==
    /\ Installed(call)
    /\ IsNone(ConfiguredPath(call))
    /\ ConfiguredArgs(call) = Some(<<"-stdin">>)
    /\ call.result.val.args = Some(<<"-stdin">>)
    /\ call.command[1].args = <<"-stdin">>

----------------------------------------------------------------------------
(* C15 *)

\* C15: a call that finds the cached path is not a regular file and then fails
\* in the remote resolution leaves the cache holding that path; and when the
\* file is there again, the next call whose settings configure no path and for
\* which worktree.which finds nothing returns that path from the cache, with no
\* feed query, no download and no status
C15_StaleCacheKept ==
    /\ [][(/\ CallStep
           /\ MissesBoth(call')
           /\ IsSome(cached_binary_path)
           /\ ~is_file(cached_binary_path[1], workdir, extFiles)
           /\ ~call'.result.ok)
          => cached_binary_path' = cached_binary_path]_vars
    /\ [][(/\ CallStep
           /\ prev.stale
           /\ MissesBoth(call')
           /\ is_file(prev.path[1], workdir, extFiles))
          => /\ cached_binary_path = prev.path
             /\ call'.result.ok
             /\ call'.result.val.path = prev.path[1]
             /\ Quiet(call'.log)
             /\ cached_binary_path' = prev.path]_vars

\* the call before failed with the path of a file that was gone in the cache;
\* the file is there again and this call returned the path from the cache
C15_Witness ==
    /\ call.active
    /\ prev.stale
    /\ prev.path[1] \in extFiles
    /\ MissesBoth(call)
    /\ call.result.ok
    /\ call.result.val.path = prev.path[1]
    /\ call.log = <<>>

----------------------------------------------------------------------------
(* C16 *)

\* the operation a failed call stopped at, by the error it returned
FailedAt(c) ==
    LET err == c.result.err
    IN  CASE err = "failed to fetch the latest release"  -> "latest_github_release"
          [] err = no_asset_error(asset_name(platform))   -> "latest_github_release"
          [] err = "failed to download file"              -> "download_file"
          [] err = "failed to make file executable"       -> "make_file_executable"
          [] err = "failed to list working directory"     -> "read_dir"
          [] err = "failed to load directory entry"       -> "read_dir"
          [] OTHER                                        -> "create_dir_all"

\* C16: a call ends with a path or with an error, with no retry: its log holds
\* at most one feed query and at most one download (no operation twice, but
\* for the two different statuses), and a call that failed at the feed query,
\* the asset match, the directory creation, the download, the mark-executable
\* or the directory listing made no further operation after the failed one
C16_NoRetry ==
    call.active =>
        LET log == call.log
            n == Len(log)
        IN  /\ call.result.ok \/ call.result.err # ""
            /\ call.result.ok => IsSome(call.command)
            /\ \A i, j \in 1..n :
                 (i < j /\ log[i].op = log[j].op) =>
                    (log[i].op = "status" /\ log[i] # log[j])
            /\ ~call.result.ok =>
                 /\ IsNone(call.command)
                 /\ n >= 2
                 /\ log[n].op = FailedAt(call)
                 /\ FailedAt(call) = "create_dir_all" =>
                      call.result.err = create_dir_error(CallVersionDir(call))

\* the download failed, after one feed query and one download attempt, and
\* the call ended at it
C16_Witness ==
    /\ call.active
    /\ ~call.result.ok
    /\ call.result.err = "failed to download file"
    /\ Len(call.log) = 5
    /\ call.log[2] = FeedQuery
    /\ call.log[5].op = "download_file"

----------------------------------------------------------------------------
(* C17 *)

\* C17: in a call that listed the working directory after its download, the
\* version directory of the call and the binary in it are still there when the
\* call ends, and the entries whose removal failed are among the others; and
\* unless an entry of the listing failed to load, the call succeeds whatever
\* removals failed: it returns binary_path, the cache holds binary_path, and
\* of the working directory only the version directory and the entries whose
\* removal failed are left
C17_CleanupBestEffort ==
    (call.active /\ call.listed # {}) =>
        LET vdir == CallVersionDir(call)
            bpath == binary_path(vdir, platform)
        IN  /\ vdir \in call.listed
            /\ vdir \in DOMAIN workdir
            /\ is_file(bpath, workdir, extFiles)
            /\ call.unremoved \subseteq (DOMAIN workdir \ {vdir})
            /\ (call.result.ok \/ call.result.err # "failed to load directory entry") =>
                 /\ call.result.ok
                 /\ call.result.val.path = bpath
                 /\ call.command[1].command = bpath
                 /\ cached_binary_path = Some(bpath)
                 /\ DOMAIN workdir = {vdir} \cup call.unremoved

\* the removal of an entry failed and the call still returned the installed
\* path and cached it
C17_Witness ==
    /\ Installed(call)
    /\ call.unremoved # {}
    /\ call.unremoved \subseteq DOMAIN workdir
    /\ CallVersionDir(call) \in DOMAIN workdir
    /\ call.result.val.path = binary_path(CallVersionDir(call), platform)
    /\ cached_binary_path = Some(call.result.val.path)

----------------------------------------------------------------------------
(* C18 *)

\* C18: a call signals Downloading or downloads only when binary_path was not
\* a regular file at the start of the call; and a call that got past the
\* creation of the version directory with binary_path already a regular file
\* signals no Downloading, downloads nothing, lists and removes nothing (the
\* working directory is as it was), sets the cache to binary_path and returns
\* binary_path
C18_InstalledVersionReused ==
    [][(CallStep /\ HasOp(call'.log, "create_dir_all")) =>
        LET vdir == CallVersionDir(call')
            bpath == binary_path(vdir, platform)
            there == is_file(bpath, workdir, extFiles)
            log == call'.log
        IN  /\ (HasEv(log, StatusDownloading) \/ HasOp(log, "download_file")) => ~there
            /\ (there /\ (call'.result.ok \/ call'.result.err # create_dir_error(vdir))) =>
                 /\ ~HasEv(log, StatusDownloading)
                 /\ ~HasOp(log, "download_file")
                 /\ ~HasOp(log, "read_dir")
                 /\ call'.listed = {}
                 /\ workdir' = workdir
                 /\ call'.result.ok
                 /\ call'.result.val.path = bpath
                 /\ cached_binary_path' = Some(bpath)]_vars

\* a call went to the release feed, found the binary of that release already
\* in the working directory, and cached and returned it with no download
C18_Witness ==
    /\ call.active
    /\ call.result.ok
    /\ Len(call.log) = 4
    /\ call.log[1] = StatusChecking
    /\ call.log[2] = FeedQuery
    /\ call.log[3].op = "create_dir_all"
    /\ call.log[4] = Ev("set_cached_binary_path", binary_path(CallVersionDir(call), platform))
    /\ cached_binary_path = Some(call.result.val.path)
    /\ is_file(call.result.val.path, workdir, extFiles)

----------------------------------------------------------------------------
(* C19 *)

\* C19: a call that fails, at the feed query, the asset match, the creation of
\* the version directory, the download, the mark-executable or the listing of
\* the working directory, leaves the cached path as it was before the call; it
\* never sets the cache, also when the binary was downloaded and made
\* executable before the listing failed
C19_FailureKeepsCache ==
    [][(CallStep /\ ~call'.result.ok) =>
         /\ cached_binary_path' = cached_binary_path
         /\ ~HasOp(call'.log, "set_cached_binary_path")]_vars

\* the binary was downloaded and made executable, the listing failed, and the
\* cache does not hold the path of the binary
C19_Witness ==
    /\ call.active
    /\ ~call.result.ok
    /\ call.result.err = "failed to list working directory"
    /\ HasOp(call.log, "make_file_executable")
    /\ is_file(binary_path(CallVersionDir(call), platform), workdir, extFiles)
    /\ cached_binary_path # Some(binary_path(CallVersionDir(call), platform))

----------------------------------------------------------------------------
(* C20 *)

\* C20: a call whose feed query fails, or whose release has no asset of the
\* expected name, fails and leaves the files as they were: after the
\* CheckingForUpdate status and the feed query it makes no operation (no
\* version directory is created, no Downloading status, no download, no
\* listing), and the working directory is unchanged
C20_EarlyFailureTouchesNothing ==
    [][(/\ CallStep
        /\ IsSome(call'.feed)
        /\ \/ ~call'.feed[1].ok
           \/ \A i \in 1..Len(call'.feed[1].assets) :
                call'.feed[1].assets[i].name # asset_name(platform))
       => /\ ~call'.result.ok
          /\ call'.log = <<StatusChecking, FeedQuery>>
          /\ workdir' = workdir
          /\ extFiles' = extFiles
          /\ call'.listed = {}]_vars

\* with an earlier version installed, the release had no asset of the expected
\* name: the call failed and the installed version is still all there is
C20_Witness ==
    /\ call.active
    /\ ~call.result.ok
    /\ call.feed # None
    /\ call.feed[1].ok
    /\ call.result.err = no_asset_error(asset_name(platform))
    /\ DOMAIN workdir # {}
    /\ version_dir(call.feed[1].version) \notin DOMAIN workdir
    /\ call.log = <<StatusChecking, FeedQuery>>

====
